---- MODULE Spec2Model ----
(***************************************************************************)
(* Model of src/iters.rs of the `faster` SIMD library: the array-backed    *)
(* producer SIMDIter, the scalar-sequence adapter SIMDAdapter, the lazy    *)
(* map SIMDMap, and the terminal operations built on next()/end().         *)
(*                                                                         *)
(* A vector of width w is a sequence of length w; lane j (0-based, as in   *)
(* the source) is element j+1.  A buffer is a sequence of scalars; the     *)
(* scalar at 0-based offset o is element o+1.                              *)
(***************************************************************************)
EXTENDS Integers, Sequences, FiniteSets, TLC

\* ------------------------------------------------------------------ bounds
\* Longest buffer explored.
MaxLen == 10

\* Hardware vector widths, in lanes of the buffer's scalar type.
Widths == {2, 4, 8}

\* Width ratios of the bit-reinterpreting maps of the tests (be_u32s,
\* be_u16s, be_u8s on 8-byte lanes).
Ratios == {2, 4, 8}

\* Marks a scalar of a Vec whose length was set without writing it.
Uninit == 0 - 99

\* Marks a scalar of a destination slice that nothing has written yet.
Untouched == 0 - 77

\* Scalar::SIZE of the buffers of the tests: i64, 8 bytes.
ScalarSize == 8

VARIABLES
    W,          \* Self::Vector::WIDTH of the array producer and the adapter
    checked,    \* TRUE: debug assertions and overflow checks are compiled in
    orig,       \* ghost: the buffer the producers were created over
    iter,       \* the SIMDIter: [position, data, default]
    status,     \* "ok", or how the program stopped: "panic" / "unspecified"
    fresh,      \* ghost: no operation has been applied to iter yet
    pure,       \* ghost: only next() and end() have been applied to iter
    vecs,       \* ghost: the vectors next() returned so far
    exhausted,  \* ghost: next() has returned None
    ends,       \* ghost: what the first two calls of end() returned
    result,     \* what the last terminal operation returned
    adapter,    \* the SIMDAdapter: [iter, scratch, default, position]
    avecs,      \* ghost: the vectors the adapter's next() returned so far
    aexhausted, \* ghost: the adapter's next() has returned None
    astatus,    \* as status, for the program that drives the adapter
    apure,      \* ghost: only next() and end() have been applied to adapter
    aends,      \* ghost: what the first two calls of the adapter's end() returned
    aresult,    \* what the last terminal operation on the adapter returned
    wrapper     \* the Unrolled, Unpacked or SIMDMap that holds iter, if any

vars == <<W, checked, orig, iter, status, fresh, pure, vecs, exhausted, ends,
          result, adapter, avecs, aexhausted, astatus, apure, aends, aresult,
          wrapper>>

arrayVars == <<iter, status, fresh, pure, vecs, exhausted, ends, result>>
adapterVars == <<adapter, avecs, aexhausted, astatus, apure, aends, aresult>>

\* ----------------------------------------------- the vector capability
\* Packed::load_unchecked: lanes 0..w-1 are buf[offset .. offset+w-1].
load_unchecked(buf, offset, w) == [j \in 1..w |-> buf[offset + j]]

\* Packed::store_unchecked: writes the lanes of v to buf[offset ..].
store_unchecked(v, buf, offset) ==
    [i \in 1..Len(buf) |->
        IF i > offset /\ i <= offset + Len(v) THEN v[i - offset] ELSE buf[i]]

\* Packed::replace_unchecked: v with lane i replaced by x.
replace_unchecked(v, i, x) == [v EXCEPT ![i + 1] = x]

\* Packed::extract_unchecked: lane i of v.
extract_unchecked(v, i) == v[i + 1]

\* Packed::merge_partitioned: the first `offset` lanes of a, the rest of b.
merge_partitioned(a, b, offset) ==
    [j \in 1..Len(a) |-> IF j <= offset THEN a[j] ELSE b[j]]

\* Packed::default(): the zero vector of width w.
Vector_default(w) == [j \in 1..w |-> 0]

\* The window [offset, offset+w) lies inside a buffer of length n: the
\* debug_assert of load_unchecked.
InBounds(n, offset, w) == offset >= 0 /\ offset + w <= n

\* How a violated precondition of an unchecked accessor, or a usize
\* underflow, ends: a panic where the checks are compiled in, and nothing
\* that can be relied on where they are not.
Fail == IF checked THEN "panic" ELSE "unspecified"

\* Byte b (0 = least significant) of the 8-byte two's-complement scalar x,
\* for -2^31 <= x < 2^31.
ByteOf(x, b) == IF b < 4 THEN (x \div (256 ^ b)) % 256
                ELSE IF x < 0 THEN 255 ELSE 0

\* The unsigned value of the s bytes of x starting at byte `base`.
RECURSIVE PartSum(_, _, _)
PartSum(x, base, s) ==
    IF s = 0 THEN 0
    ELSE ByteOf(x, base) + 256 * PartSum(x, base + 1, s - 1)

\* v.to_le().be_u32s() / be_u16s() / be_u8s(): the bits of v read as k
\* times as many lanes; lane j*k + i is the i-th little-endian part of
\* lane j of v.
be(v, k) ==
    [m \in 1..(Len(v) * k) |->
        PartSum(v[((m - 1) \div k) + 1],
                ((m - 1) % k) * (ScalarSize \div k),
                ScalarSize \div k)]

\* The value of F at x, with x evaluated once: `let v = x; F(v)`.
With(x, F(_)) == CHOOSE r \in {F(v) : v \in {x}} : TRUE

\* ------------------------------------------------------- SIMDIter
\* SIMDSized::scalar_len for SIMDIter: the length of the buffer.
SIMDIter_scalar_len(it) == Len(it.data)

\* ExactSizeIterator::len for SIMDIter.
SIMDIter_len(it) == SIMDIter_scalar_len(it) \div W

\* SIMDIterable::advance for SIMDIter.
SIMDIter_advance(it, amount) == [it EXCEPT !.position = @ + amount]

\* SIMDIter_finalize stopping one scalar short of the end.
SIMDIter_finalize_short(it) ==
    SIMDIter_advance(it, (SIMDIter_scalar_len(it) - it.position) - 1)

\* SIMDIter_finalize leaving the cursor where it is.
SIMDIter_finalize_stay(it) == it

\* SIMDIterable::finalize.
SIMDIter_finalize(it) ==
    SIMDIter_advance(it, SIMDIter_scalar_len(it) - it.position)

\* SIMDIter_next with a strict comparison: the last full vector is left
\* to end().
SIMDIter_next_strict(it) ==
    IF it.position + W < SIMDIter_scalar_len(it)
    THEN [tag |-> "Some",
          vec |-> load_unchecked(it.data, it.position, W),
          n   |-> 0,
          it  |-> SIMDIter_advance(it, W)]
    ELSE [tag |-> "None", vec |-> <<>>, n |-> 0, it |-> it]

\* Iterator::next for SIMDIter.
SIMDIter_next(it) ==
    IF it.position + W <= SIMDIter_scalar_len(it)
    THEN [tag |-> "Some",
          vec |-> load_unchecked(it.data, it.position, W),
          n   |-> 0,
          it  |-> SIMDIter_advance(it, W)]
    ELSE [tag |-> "None", vec |-> <<>>, n |-> 0, it |-> it]

\* The scalar loop of end(): for i in scalar_pos..scalar_len, lane
\* i + empty_amt takes buffer[i].
EndScalarLoop(ret, it, pos, empty_amt) ==
    [j \in 1..Len(ret) |->
        IF (j - 1) - empty_amt \in pos..(SIMDIter_scalar_len(it) - 1)
        THEN it.data[((j - 1) - empty_amt) + 1]
        ELSE ret[j]]

\* SIMDIter_end reporting the number of filled lanes instead of the number
\* of empty ones.
SIMDIter_end_filled(it) ==
    LET L   == SIMDIter_scalar_len(it)
        pos == it.position
    IN  IF pos < L /\ L - pos <= W
        THEN [tag |-> "Some",
              vec |-> IF W < L
                      THEN merge_partitioned(it.default,
                               load_unchecked(it.data, L - W, W), W - (L - pos))
                      ELSE EndScalarLoop(it.default, it, pos, W - (L - pos)),
              n   |-> L - pos,
              it  |-> SIMDIter_finalize(it)]
        ELSE [tag |-> IF pos < L THEN Fail ELSE "None",
              vec |-> <<>>, n |-> 0, it |-> it]

\* SIMDIter_end with the two vectors of the merge swapped: the loaded
\* window in the low lanes and the default in the high ones.
SIMDIter_end_swapped(it) ==
    LET L   == SIMDIter_scalar_len(it)
        pos == it.position
    IN  IF pos < L /\ L - pos <= W
        THEN [tag |-> "Some",
              vec |-> IF W < L
                      THEN merge_partitioned(load_unchecked(it.data, L - W, W),
                                             it.default, W - (L - pos))
                      ELSE EndScalarLoop(it.default, it, pos, W - (L - pos)),
              n   |-> W - (L - pos),
              it  |-> SIMDIter_finalize(it)]
        ELSE [tag |-> IF pos < L THEN Fail ELSE "None",
              vec |-> <<>>, n |-> 0, it |-> it]

\* SIMDIter_end without the overflow check on empty_amt: with more than W
\* scalars left it goes on as with none empty.
SIMDIter_end_wrapping(it) ==
    LET L   == SIMDIter_scalar_len(it)
        pos == it.position
    IN  IF pos < L
        THEN [tag |-> "Some",
              vec |-> IF W < L
                      THEN merge_partitioned(it.default,
                               load_unchecked(it.data, L - W, W),
                               IF L - pos > W THEN 0 ELSE W - (L - pos))
                      ELSE EndScalarLoop(it.default, it, pos, W - (L - pos)),
              n   |-> W - (L - pos),
              it  |-> SIMDIter_finalize(it)]
        ELSE [tag |-> "None", vec |-> <<>>, n |-> 0, it |-> it]

\* SIMDIterator::end, the blanket implementation for array producers.
\* empty_amt is a usize: more than W remaining scalars underflow it, which
\* panics under overflow checks and is left unspecified otherwise.  A lane
\* index >= W in the scalar loop is an out-of-bounds lane write.
SIMDIter_end(it) ==
    LET L   == SIMDIter_scalar_len(it)
        pos == it.position
    IN  IF pos < L
        THEN IF L - pos > W
             THEN [tag |-> Fail, vec |-> <<>>, n |-> 0, it |-> it]
             ELSE LET empty_amt == W - (L - pos)
                  IN  IF W < L
                      THEN [tag |-> "Some",
                            vec |-> merge_partitioned(it.default,
                                        load_unchecked(it.data, L - W, W),
                                        empty_amt),
                            n   |-> empty_amt,
                            it  |-> SIMDIter_finalize(it)]
                      ELSE IF (L - 1) + empty_amt >= W
                           THEN [tag |-> Fail, vec |-> <<>>, n |-> 0, it |-> it]
                           ELSE [tag |-> "Some",
                                 vec |-> EndScalarLoop(it.default, it, pos, empty_amt),
                                 n   |-> empty_amt,
                                 it  |-> SIMDIter_finalize(it)]
        ELSE [tag |-> "None", vec |-> <<>>, n |-> 0, it |-> it]

\* ------------------------------------------------------- Unpacked
\* Unpacked::next advancing the cursor by a whole vector per scalar.
Unpacked_next_byW(it) ==
    IF it.position < SIMDIter_scalar_len(it)
    THEN [tag |-> "Some", val |-> it.data[it.position + 1],
          it |-> SIMDIter_advance(it, W)]
    ELSE [tag |-> "None", val |-> 0, it |-> it]

\* Iterator::next for Unpacked: the scalar at scalar_pos, and the cursor one
\* scalar further.
Unpacked_next(it) ==
    IF it.position < SIMDIter_scalar_len(it)
    THEN [tag |-> "Some", val |-> it.data[it.position + 1],
          it |-> SIMDIter_advance(it, 1)]
    ELSE [tag |-> "None", val |-> 0, it |-> it]

\* Unpacked::pack: the inner producer as it is.
pack(it) == it

\* ------------------------------------------------------- Unrolled
\* The most vectors one batch can hold: the length of Unrolled::scratch.
ScratchLen == 8

\* SIMDIterable::unroll: scratch starts as ScratchLen default vectors.
unroll(amt) == [amt |-> amt, scratch |-> [i \in 1..ScratchLen |-> Vector_default(W)]]

\* The loop of Unrolled::next: while i < amt, the next vector of the
\* producer goes to scratch[i].
RECURSIVE UnrolledLoop(_, _, _, _)
UnrolledLoop(it, amt, scratch, i) ==
    IF i < amt
    THEN With(SIMDIter_next(it), LAMBDA r :
            IF r.tag = "Some"
            THEN UnrolledLoop(r.it, amt, [scratch EXCEPT ![i + 1] = r.vec], i + 1)
            ELSE [it |-> it, scratch |-> scratch, i |-> i])
    ELSE [it |-> it, scratch |-> scratch, i |-> i]

\* Unrolled::next handing out the whole chunk whatever the loop filled.
Unrolled_next_whole(it, u) ==
    With(UnrolledLoop(it, u.amt, u.scratch, 0), LAMBDA lp :
        IF lp.i > 0
        THEN [tag |-> "Some", batch |-> SubSeq(lp.scratch, 1, u.amt),
              it |-> lp.it, scratch |-> lp.scratch]
        ELSE [tag |-> "None", batch |-> <<>>, it |-> lp.it, scratch |-> lp.scratch])

\* Iterator::next for Unrolled: the first i vectors of scratch if the loop
\* filled any.
Unrolled_next(it, u) ==
    With(UnrolledLoop(it, u.amt, u.scratch, 0), LAMBDA lp :
        IF lp.i > 0
        THEN [tag |-> "Some", batch |-> SubSeq(lp.scratch, 1, lp.i),
              it |-> lp.it, scratch |-> lp.scratch]
        ELSE [tag |-> "None", batch |-> <<>>, it |-> lp.it, scratch |-> lp.scratch])

\* ------------------------------------------------------- SIMDAdapter
\* SIMDSized::scalar_len for SIMDAdapter: the length of the inner
\* sequence, i.e. of what has not been pulled from it yet.
SIMDAdapter_scalar_len(a) == Len(a.iter)

\* ExactSizeIterator::len for SIMDAdapter.
SIMDAdapter_len(a) == Len(a.iter) \div W

\* SIMDIterable::advance for SIMDAdapter.
SIMDAdapter_advance(a, amount) == [a EXCEPT !.position = @ + amount]

\* The loop of SIMDAdapter::next: for offset in 0..width, lane offset takes
\* the next scalar of the inner sequence.
\* a.iter[offset + 1] is the scalar self.iter.next() yields in round
\* offset; the result is the scratch vector after the loop.
RECURSIVE AdapterNextLoop(_, _, _)
AdapterNextLoop(a, scratch, offset) ==
    IF offset >= W THEN scratch
    ELSE AdapterNextLoop(a, replace_unchecked(scratch, offset, a.iter[offset + 1]),
                         offset + 1)

\* Iterator::next for SIMDAdapter.
SIMDAdapter_next(a) ==
    IF a.position + W <= SIMDAdapter_scalar_len(a)
    THEN With(SIMDAdapter_advance(
                  [a EXCEPT !.scratch = AdapterNextLoop(a, a.scratch, 0),
                            !.iter = SubSeq(a.iter, W + 1, Len(a.iter))], W),
              LAMBDA b : [tag |-> "Some", vec |-> b.scratch, n |-> 0, it |-> b])
    ELSE [tag |-> "None", vec |-> <<>>, n |-> 0, it |-> a]

\* usize::MAX, written as its residue modulo 2^64.
USIZE_MAX == 0 - 1

\* The loop of SIMDAdapter::end: while the inner sequence yields an item,
\* lane offset takes it and offset is decremented.  Decrementing offset 0
\* is a usize underflow: a panic under overflow checks, usize::MAX
\* otherwise, and then a further item is written to a lane outside the
\* vector.
\* a.iter[t + 1] is the item self.iter.next() yields in round t.
RECURSIVE AdapterEndLoop(_, _, _, _)
AdapterEndLoop(a, scratch, t, offset) ==
    IF t >= Len(a.iter)
    THEN [tag |-> "ok", scratch |-> scratch, offset |-> offset]
    ELSE IF offset = USIZE_MAX
    THEN [tag |-> "unspecified", scratch |-> scratch, offset |-> offset]
    ELSE IF offset = 0
    THEN IF checked
         THEN [tag |-> "panic", scratch |-> scratch, offset |-> offset]
         ELSE AdapterEndLoop(a, replace_unchecked(scratch, offset, a.iter[t + 1]),
                             t + 1, USIZE_MAX)
    ELSE AdapterEndLoop(a, replace_unchecked(scratch, offset, a.iter[t + 1]),
                        t + 1, offset - 1)

\* SIMDIterator::end for SIMDAdapter.  finalize() advances by
\* scalar_len() - position, a usize subtraction: with position above the
\* (now empty) inner sequence's length it panics under overflow checks and
\* wraps the position to 0 otherwise.
SIMDAdapter_end(a) ==
    IF a.position < SIMDAdapter_scalar_len(a)
    THEN With(AdapterEndLoop(a, a.default, 0, W - 1), LAMBDA r :
           With([a EXCEPT !.scratch = r.scratch, !.iter = <<>>], LAMBDA b :
                 IF r.tag # "ok"
                 THEN [tag |-> r.tag, vec |-> <<>>, n |-> 0, it |-> b]
                 ELSE IF SIMDAdapter_scalar_len(b) - b.position < 0 /\ checked
                 THEN [tag |-> "panic", vec |-> <<>>, n |-> 0, it |-> b]
                 ELSE [tag |-> "Some", vec |-> b.scratch, n |-> r.offset,
                       it  |-> SIMDAdapter_advance(b,
                                  SIMDAdapter_scalar_len(b) - b.position)]))
    ELSE [tag |-> "None", vec |-> <<>>, n |-> 0, it |-> a]

\* ------------------------------------------------------- SIMDMap
\* A SIMDMap is [kind |-> "SIMDMap", iter |-> the inner producer, k |-> the
\* ratio of its func, a bit reinterpretation into k times as many lanes].

\* Iterator::next of the inner producer of a map.
Inner_next(p) ==
    IF p.kind = "SIMDAdapter" THEN SIMDAdapter_next(p) ELSE SIMDIter_next(p)

\* SIMDIterator::end of the inner producer of a map.
Inner_end(p) ==
    IF p.kind = "SIMDAdapter" THEN SIMDAdapter_end(p) ELSE SIMDIter_end(p)

\* ExactSizeIterator::len of the inner producer of a map.
Inner_len(p) ==
    IF p.kind = "SIMDAdapter" THEN SIMDAdapter_len(p) ELSE SIMDIter_len(p)

\* Iterator::next for SIMDMap: self.iter.next().map(&mut self.func).
SIMDMap_next(m) ==
    With(Inner_next(m.iter), LAMBDA r :
        [tag |-> r.tag,
         vec |-> IF r.tag = "Some" THEN be(r.vec, m.k) ELSE <<>>,
         n   |-> 0,
         it  |-> [m EXCEPT !.iter = r.it]])

\* SIMDMap_end handing on the inner empty count as it is.
SIMDMap_end_unscaled(m) ==
    With(Inner_end(m.iter), LAMBDA r :
        [tag |-> r.tag,
         vec |-> IF r.tag = "Some" THEN be(r.vec, m.k) ELSE <<>>,
         n   |-> r.n,
         it  |-> [m EXCEPT !.iter = r.it]])

\* SIMDIterator::end for SIMDMap: the inner tail through func, and its
\* empty count times I::Scalar::SIZE over Self::Scalar::SIZE.
SIMDMap_end(m) ==
    With(Inner_end(m.iter), LAMBDA r :
        [tag |-> r.tag,
         vec |-> IF r.tag = "Some" THEN be(r.vec, m.k) ELSE <<>>,
         n   |-> IF r.tag = "Some"
                 THEN (r.n * ScalarSize) \div (ScalarSize \div m.k) ELSE 0,
         it  |-> [m EXCEPT !.iter = r.it]])

\* --------------------------------- SIMDMap between scalars of any two sizes
\* Here a SIMDMap is [kind |-> "SIMDMap", iter |-> the inner SIMDIter,
\* isz |-> I::Scalar::SIZE, osz |-> Self::Scalar::SIZE] and its func
\* reinterprets the bits of a vector of isz-byte lanes as osz-byte lanes.

\* The bytes of the vector v of isz-byte lanes, in memory order.
Bytes(v, isz) ==
    [m \in 1..(Len(v) * isz) |-> ByteOf(v[((m - 1) \div isz) + 1], (m - 1) % isz)]

\* func: the same bytes as lanes of osz bytes, each lane the tuple of its
\* bytes, least significant first.
cast(v, isz, osz) ==
    [j \in 1..((Len(v) * isz) \div osz) |->
        [b \in 1..osz |-> Bytes(v, isz)[(j - 1) * osz + b]]]

\* SIMDObject::width for SIMDMap: the lanes of a vector of as many bytes.
SIMDMap_width(m) == (W * m.isz) \div m.osz

\* SIMDSized::scalar_len for SIMDMap: self.iter.len().
SIMDMap_scalar_len(m) == SIMDIter_len(m.iter)

\* SIMDIterable::scalar_pos for SIMDMap: self.iter.scalar_pos().
SIMDMap_scalar_pos(m) == m.iter.position

\* SIMDIterable::advance for SIMDMap: self.iter.advance(amount).
SIMDMap_advance(m, amount) == [m EXCEPT !.iter = SIMDIter_advance(@, amount)]

\* SIMDIterable::finalize on a SIMDMap: scalar_len() - scalar_pos() is a
\* usize subtraction, which panics under overflow checks when the cursor is
\* past scalar_len() and wraps otherwise, so that the wrapping advance
\* leaves the cursor at scalar_len().
SIMDMap_finalize(m) ==
    IF SIMDMap_scalar_pos(m) > SIMDMap_scalar_len(m) /\ checked
    THEN [tag |-> "panic", it |-> m]
    ELSE [tag |-> "ok",
          it  |-> SIMDMap_advance(m, SIMDMap_scalar_len(m) - SIMDMap_scalar_pos(m))]

\* The empty count with the two sizes the wrong way round.
MapEndCount_swapped(n, isz, osz) == (n * osz) \div isz

\* nr of SIMDMap::end: n * I::Scalar::SIZE / Self::Scalar::SIZE.
MapEndCount(n, isz, osz) == (n * isz) \div osz

\* Iterator::next for this SIMDMap.
CastMap_next(m) ==
    With(SIMDIter_next(m.iter), LAMBDA r :
        [tag |-> r.tag,
         vec |-> IF r.tag = "Some" THEN cast(r.vec, m.isz, m.osz) ELSE <<>>,
         n   |-> 0,
         it  |-> [m EXCEPT !.iter = r.it]])

\* SIMDIterator::end for this SIMDMap; inner is the empty count of the
\* inner tail.
CastMap_end(m) ==
    With(SIMDIter_end(m.iter), LAMBDA r :
        [tag |-> r.tag,
         vec |-> IF r.tag = "Some" THEN cast(r.vec, m.isz, m.osz) ELSE <<>>,
         inner |-> r.n,
         n   |-> IF r.tag = "Some" THEN MapEndCount(r.n, m.isz, m.osz) ELSE 0,
         it  |-> [m EXCEPT !.iter = r.it]])

\* ------------------------------------------- dispatch on the producer
\* SIMDObject::width: Self::Vector::WIDTH.
width(p) == IF p.kind = "SIMDMap" THEN W * p.k ELSE W

\* ExactSizeIterator::len.
len(p) == IF p.kind = "SIMDMap" THEN Inner_len(p.iter) ELSE Inner_len(p)

\* Iterator::next.
next(p) == IF p.kind = "SIMDMap" THEN SIMDMap_next(p) ELSE Inner_next(p)

\* SIMDIterator::end.
end(p) == IF p.kind = "SIMDMap" THEN SIMDMap_end(p) ELSE Inner_end(p)

\* ------------------------------------------------- terminal operations
\* The loop `while let Some(vec) = self.next()` of scalar_collect,
\* scalar_fill and scalar_fill_all: each vector is stored at offset, offset
\* grows by the width and (in the first two) lastvec remembers the vector.
RECURSIVE StoreLoop(_, _, _, _)
StoreLoop(p, buf, offset, lastvec) ==
    With(next(p), LAMBDA r :
        IF r.tag = "Some"
        THEN IF InBounds(Len(buf), offset, width(p))
             THEN With(store_unchecked(r.vec, buf, offset), LAMBDA buf2 :
                      StoreLoop(r.it, buf2, offset + width(p), r.vec))
             ELSE [tag |-> Fail, p |-> r.it, buf |-> buf, offset |-> offset,
                   lastvec |-> lastvec]
        ELSE [tag |-> "ok", p |-> p, buf |-> buf, offset |-> offset,
              lastvec |-> lastvec])

\* The elementwise loop of scalar_collect and scalar_fill:
\* for i in 0..(width - n) { fill[offset + i] = p.extract_unchecked(i + n) }.
\* The index is a checked slice index.
ExtractLoop(buf, vec, n, offset, w) ==
    IF w - n > 0 /\ offset + (w - n) > Len(buf)
    THEN [tag |-> "panic", buf |-> buf]
    ELSE [tag |-> "ok",
          buf |-> [j \in 1..Len(buf) |->
                      IF (j - 1) - offset \in 0..((w - n) - 1)
                      THEN extract_unchecked(vec, ((j - 1) - offset) + n)
                      ELSE buf[j]]]

\* StoreTail without the second store of the last full vector.
StoreTail_once(buf, vec, n, offset, lastvec, w) ==
    IF InBounds(Len(buf), offset - n, w)
    THEN [tag |-> "ok", buf |-> store_unchecked(vec, buf, offset - n)]
    ELSE [tag |-> Fail, buf |-> buf]

\* StoreTail with the tail stored at offset, after the full vectors,
\* instead of at offset - n.
StoreTail_unaligned(buf, vec, n, offset, lastvec, w) ==
    IF InBounds(Len(buf), offset, w) /\ InBounds(Len(buf), offset - w, w)
    THEN With(store_unchecked(vec, buf, offset), LAMBDA buf2 :
             [tag |-> "ok", buf |-> store_unchecked(lastvec, buf2, offset - w)])
    ELSE [tag |-> Fail, buf |-> buf]

\* What scalar_collect and scalar_fill do with the tail (p, n) when
\* offset > 0: the tail is stored at offset - n and the last full vector
\* again at offset - width.
StoreTail(buf, vec, n, offset, lastvec, w) ==
    IF InBounds(Len(buf), offset - n, w) /\ InBounds(Len(buf), offset - w, w)
    THEN With(store_unchecked(vec, buf, offset - n), LAMBDA buf2 :
             [tag |-> "ok", buf |-> store_unchecked(lastvec, buf2, offset - w)])
    ELSE [tag |-> Fail, buf |-> buf]

\* The part of scalar_fill and scalar_collect after the loop, which left
\* lp: the tail, if there is one, goes in by StoreTail after a full vector
\* and elementwise otherwise.
FillTail(lp, w) ==
    IF lp.tag # "ok" THEN [tag |-> lp.tag, out |-> lp.buf, p |-> lp.p, n |-> 0,
                           offset |-> lp.offset]
    ELSE With(end(lp.p), LAMBDA e :
        IF e.tag = "Some"
        THEN With(IF lp.offset > 0
                  THEN StoreTail(lp.buf, e.vec, e.n, lp.offset, lp.lastvec, w)
                  ELSE ExtractLoop(lp.buf, e.vec, e.n, lp.offset, w),
                  LAMBDA t : [tag |-> t.tag, out |-> t.buf, p |-> e.it, n |-> e.n,
                              offset |-> lp.offset])
        ELSE [tag |-> IF e.tag = "None" THEN "ok" ELSE e.tag,
              out |-> lp.buf, p |-> e.it, n |-> 0 - 1, offset |-> lp.offset])

\* IntoScalar::scalar_fill into the slice fill.
scalar_fill(p, fill) ==
    With(StoreLoop(p, fill, 0, Vector_default(width(p))), LAMBDA lp :
        With(FillTail(lp, width(p)), LAMBDA r :
            [tag |-> r.tag, out |-> r.out, p |-> r.p, n |-> r.n]))

\* IntoScalar::scalar_collect: a Vec of (len + 1) * width scalars, none of
\* them written, filled as by scalar_fill and then cut to
\* width + offset - n after a tail and to len * width without one.
scalar_collect(p) ==
    With([i \in 1..((len(p) + 1) * width(p)) |-> Uninit], LAMBDA ret :
      With(StoreLoop(p, ret, 0, Vector_default(width(p))), LAMBDA lp :
        With(FillTail(lp, width(p)), LAMBDA r :
            [tag |-> r.tag,
             out |-> IF r.tag # "ok" THEN r.out
                     ELSE IF r.n >= 0
                     THEN SubSeq(r.out, 1, width(p) + r.offset - r.n)
                     ELSE SubSeq(r.out, 1, len(r.p) * width(p)),
             p   |-> r.p,
             n   |-> r.n])))

\* IntoScalar::scalar_fill_all into the slice fill: every full vector, then
\* the tail vector as it is at the next offset.
scalar_fill_all(p, fill) ==
    With(StoreLoop(p, fill, 0, Vector_default(width(p))), LAMBDA lp :
        IF lp.tag # "ok" THEN [tag |-> lp.tag, out |-> lp.buf, p |-> lp.p, n |-> 0 - 1]
        ELSE With(end(lp.p), LAMBDA e :
            IF e.tag = "Some"
            THEN IF InBounds(Len(lp.buf), lp.offset, width(p))
                 THEN [tag |-> "ok",
                       out |-> store_unchecked(e.vec, lp.buf, lp.offset),
                       p |-> e.it, n |-> e.n]
                 ELSE [tag |-> Fail, out |-> lp.buf, p |-> e.it, n |-> e.n]
            ELSE [tag |-> IF e.tag = "None" THEN "ok" ELSE e.tag,
                  out |-> lp.buf, p |-> e.it, n |-> 0 - 1]))

\* IntoScalar::scalar_collect_all: a Vec with room for (len + 1) * width
\* scalars whose length is set to len, the number of VECTORS, and which is
\* handed as a slice of that length to scalar_fill_all.  A store outside
\* the slice trips the accessor's debug assertion; without the assertion it
\* writes into the Vec's spare room and the Vec comes back len long.
scalar_collect_all(p) ==
    With(scalar_fill_all(p, [i \in 1..len(p) |-> Uninit]), LAMBDA r :
        IF r.tag = "unspecified"
        THEN With(scalar_fill_all(p, [i \in 1..((len(p) + 1) * width(p)) |-> Uninit]),
                  LAMBDA raw :
                     [tag |-> "unspecified",
                      out |-> IF Len(raw.out) >= len(p)
                              THEN SubSeq(raw.out, 1, len(p)) ELSE raw.out,
                      p |-> raw.p, n |-> raw.n])
        ELSE r)

\* The mutators handed to simd_for_each: lane-wise functions.
Mutate(g, v) == [j \in 1..Len(v) |-> IF g = "add100" THEN v[j] + 100 ELSE v[j]]

\* The loop of simd_for_each: each full vector goes through func and back
\* to the offset it was loaded from.
RECURSIVE ForEachLoop(_, _, _)
ForEachLoop(it, g, lastvec) ==
    With(SIMDIter_next(it), LAMBDA r :
        IF r.tag = "Some"
        THEN With(Mutate(g, r.vec), LAMBDA v :
               With([r.it EXCEPT !.data = store_unchecked(v, @, r.it.position - W)],
                    LAMBDA it2 : ForEachLoop(it2, g, v)))
        ELSE [it |-> it, lastvec |-> lastvec])

\* ForEachScalarLoop writing the tail's lanes from lane 0 on (the padding
\* first) instead of from lane n on.
ForEachScalarLoop_padding(buf, vec, n, offset) ==
    IF W - n > 0 /\ offset + (W - n) > Len(buf)
    THEN [tag |-> Fail, buf |-> buf]
    ELSE [tag |-> "ok",
          buf |-> [j \in 1..Len(buf) |->
                      IF (j - 1) - offset \in 0..((W - n) - 1)
                      THEN extract_unchecked(vec, (j - 1) - offset)
                      ELSE buf[j]]]

\* The elementwise write-back of simd_for_each:
\* for i in 0..(width - n) { store_scalar_unchecked(p.extract_unchecked(i + n), offset + i) }.
ForEachScalarLoop(buf, vec, n, offset) ==
    IF W - n > 0 /\ offset + (W - n) > Len(buf)
    THEN [tag |-> Fail, buf |-> buf]
    ELSE [tag |-> "ok",
          buf |-> [j \in 1..Len(buf) |->
                      IF (j - 1) - offset \in 0..((W - n) - 1)
                      THEN extract_unchecked(vec, ((j - 1) - offset) + n)
                      ELSE buf[j]]]

\* SIMDIteratorMut::simd_for_each for SIMDIter.
simd_for_each(it, g) ==
    With(ForEachLoop(it, g, Vector_default(W)), LAMBDA lp :
      With(SIMDIter_end(lp.it), LAMBDA e :
        IF e.tag = "Some"
        THEN With(Mutate(g, e.vec), LAMBDA p :
               With(IF W < SIMDIter_scalar_len(e.it)
                    THEN StoreTail(e.it.data, p, e.n, lp.it.position, lp.lastvec, W)
                    ELSE ForEachScalarLoop(e.it.data, p, e.n, lp.it.position),
                    LAMBDA t :
                       [tag |-> t.tag, p |-> [e.it EXCEPT !.data = t.buf],
                        n |-> e.n]))
        ELSE [tag |-> IF e.tag = "None" THEN "ok" ELSE e.tag,
              p |-> e.it, n |-> 0 - 1]))

\* The loop of simd_reduce: start = func(start, v) for each full vector.
\* func appends its argument to the accumulator, so the accumulator is the
\* list of func's arguments in call order.
RECURSIVE ReduceLoop(_, _)
ReduceLoop(p, start) ==
    With(next(p), LAMBDA r :
        IF r.tag = "Some"
        THEN With(Append(start, r.vec), LAMBDA start2 : ReduceLoop(r.it, start2))
        ELSE [p |-> p, start |-> start])

\* SIMDIterator::simd_reduce.
simd_reduce(p, start) ==
    With(ReduceLoop(p, start), LAMBDA lp :
      With(end(lp.p), LAMBDA e :
        IF e.tag = "Some"
        THEN [tag |-> "ok", out |-> Append(lp.start, e.vec), p |-> e.it, n |-> e.n]
        ELSE [tag |-> IF e.tag = "None" THEN "ok" ELSE e.tag,
              out |-> lp.start, p |-> e.it, n |-> 0 - 1]))

\* The closure of the example in the documentation of simd_reduce:
\* |acc, v| acc + v, lane by lane.
Add(acc, v) == [j \in 1..Len(acc) |-> acc[j] + v[j]]

\* One turn of `while let Some(v) = self.next() { start = func(start, v) }`
\* with that closure; last is the argument of the closure's latest call.
\* Once next() has returned None the loop is over and a turn changes
\* nothing.
AddTurn(st) ==
    IF st.tag = "None" THEN st
    ELSE LET r == next(st.p)
         IN  IF r.tag = "Some"
             THEN [p |-> r.it, start |-> Add(st.start, r.vec), last |-> r.vec,
                   tag |-> "Some"]
             ELSE [st EXCEPT !.tag = "None"]

\* n turns of the loop, the first half of them and then the rest.
RECURSIVE AddTurns(_, _)
AddTurns(st, n) ==
    IF n = 0 THEN st
    ELSE IF n = 1 THEN AddTurn(st)
    ELSE With(AddTurns(st, n \div 2), LAMBDA half : AddTurns(half, n - (n \div 2)))

\* The loop of simd_reduce with that closure: it ends with the first None,
\* which next() returns after len(p) vectors at most.
AddLoop(p, start) ==
    AddTurns([p |-> p, start |-> start, last |-> <<>>, tag |-> "Some"], len(p) + 1)

\* SIMDIterator::simd_reduce with that closure: out is the reduction and
\* last the argument of the last call of the closure.
simd_reduce_add(p, start) ==
    With(AddLoop(p, start), LAMBDA lp :
      With(end(lp.p), LAMBDA e :
        IF lp.tag # "None"
        THEN [tag |-> "unspecified", out |-> lp.start, last |-> lp.last,
              p |-> lp.p, n |-> 0 - 1]
        ELSE IF e.tag = "Some"
        THEN [tag |-> "ok", out |-> Add(lp.start, e.vec), last |-> e.vec,
              p |-> e.it, n |-> e.n]
        ELSE [tag |-> IF e.tag = "None" THEN "ok" ELSE e.tag,
              out |-> lp.start, last |-> lp.last, p |-> e.it, n |-> 0 - 1]))

\* The loop of simd_do_each: func(v) for each full vector; func pushes its
\* argument to the list seen.
RECURSIVE DoEachLoop(_, _)
DoEachLoop(p, seen) ==
    With(next(p), LAMBDA r :
        IF r.tag = "Some"
        THEN With(Append(seen, r.vec), LAMBDA seen2 : DoEachLoop(r.it, seen2))
        ELSE [p |-> p, seen |-> seen])

\* SIMDIterator::simd_do_each.
simd_do_each(p) ==
    With(DoEachLoop(p, <<>>), LAMBDA lp :
      With(end(lp.p), LAMBDA e :
        IF e.tag = "Some"
        THEN [tag |-> "ok", out |-> Append(lp.seen, e.vec), p |-> e.it, n |-> e.n]
        ELSE [tag |-> IF e.tag = "None" THEN "ok" ELSE e.tag,
              out |-> lp.seen, p |-> e.it, n |-> 0 - 1]))

\* ------------------------------------------------------------ the inputs
\* The scalar at 0-based index i of the buffers explored: pairwise
\* distinct, and with a different non-zero value in each of the four low
\* bytes.
Val(i) == (i + 1) + 256 * (i + 2) + 65536 * (i + 3) + 16777216 * (i + 4)

\* The buffer of length L.
Buffer(L) == [i \in 1..L |-> Val(i - 1)]

\* The default vectors explored: zero, and one that differs in every lane.
Defaults == {[j \in 1..W |-> 0], [j \in 1..W |-> 200 + j]}

\* No wrapper holds iter.
NoWrapper ==
    [kind |-> "none", amt |-> 0, out |-> <<>>, done |-> FALSE, fresh |-> FALSE,
     start |-> 0]

\* The value of result and aresult before any terminal operation.
NoResult ==
    [op |-> "none", fresh |-> FALSE, start |-> 0, tag |-> "ok", out |-> <<>>,
     n |-> 0, k |-> 1, g |-> "id", before |-> <<>>, fill |-> 0]

Init ==
    /\ W \in Widths
    /\ checked \in BOOLEAN
    /\ orig \in {Buffer(L) : L \in 0..MaxLen}
    /\ iter \in {[kind |-> "SIMDIter", position |-> 0, data |-> orig, default |-> d] :
                    d \in Defaults}
    /\ adapter = [kind |-> "SIMDAdapter", iter |-> orig, scratch |-> iter.default,
                  default |-> iter.default, position |-> 0]
    /\ status = "ok"
    /\ fresh = TRUE
    /\ pure = TRUE
    /\ vecs = <<>>
    /\ exhausted = FALSE
    /\ ends = <<>>
    /\ result = NoResult
    /\ avecs = <<>>
    /\ aexhausted = FALSE
    /\ astatus = "ok"
    /\ apure = TRUE
    /\ aends = <<>>
    /\ aresult = NoResult
    /\ wrapper = NoWrapper

\* ------------------------------------------- the array-backed producer
\* A call of iter.next().
IterNext ==
    /\ status = "ok"
    /\ \E r \in {SIMDIter_next(iter)} :
        /\ iter' = r.it
        /\ fresh' = FALSE
        /\ vecs' = IF pure /\ r.tag = "Some" THEN Append(vecs, r.vec) ELSE vecs
        /\ exhausted' = (exhausted \/ (pure /\ r.tag = "None"))
        /\ UNCHANGED <<W, checked, orig, status, pure, ends, result>>
        /\ UNCHANGED adapterVars
        /\ UNCHANGED wrapper

\* A call of iter.end().
IterEnd ==
    /\ status = "ok"
    /\ \E r \in {SIMDIter_end(iter)} :
        /\ iter' = r.it
        /\ fresh' = FALSE
        /\ status' = IF r.tag \in {"Some", "None"} THEN "ok" ELSE r.tag
        /\ ends' = IF pure /\ Len(ends) < 2
                   THEN Append(ends, [tag |-> r.tag, vec |-> r.vec, n |-> r.n,
                                      exhausted |-> exhausted,
                                      pos |-> iter.position])
                   ELSE ends
        /\ UNCHANGED <<W, checked, orig, pure, vecs, exhausted, result>>
        /\ UNCHANGED adapterVars
        /\ UNCHANGED wrapper

\* What a terminal operation on iter leaves: its result r, recorded with
\* the state it started from, and the producer newiter.
Terminal(op, r, newiter, k, g, fill) ==
    /\ result' = [op |-> op, fresh |-> fresh, start |-> iter.position,
                  tag |-> r.tag, out |-> r.out, n |-> r.n, k |-> k, g |-> g,
                  before |-> iter.data, fill |-> fill]
    /\ iter' = newiter
    /\ status' = r.tag
    /\ fresh' = FALSE
    /\ pure' = FALSE
    /\ vecs' = <<>>
    /\ exhausted' = FALSE
    /\ ends' = <<>>
    /\ UNCHANGED <<W, checked, orig>>
    /\ UNCHANGED adapterVars
    /\ UNCHANGED wrapper

\* iter.scalar_collect().
ScalarCollect ==
    /\ status = "ok"
    /\ \E r \in {scalar_collect(iter)} :
        Terminal("scalar_collect", r, r.p, 1, "id", 0)

\* iter.scalar_fill(fill) for a slice as long as the buffer, or one vector
\* longer.
ScalarFill ==
    /\ status = "ok"
    /\ \E extra \in {0, W} :
        \E r \in {scalar_fill(iter, [i \in 1..(Len(iter.data) + extra) |-> Untouched])} :
            Terminal("scalar_fill", r, r.p, 1, "id", Len(iter.data) + extra)

\* iter.scalar_fill_all(fill) for a slice as long as the buffer, or one
\* vector longer.
ScalarFillAll ==
    /\ status = "ok"
    /\ \E extra \in {0, W} :
        \E r \in {scalar_fill_all(iter, [i \in 1..(Len(iter.data) + extra) |-> Untouched])} :
            Terminal("scalar_fill_all", r, r.p, 1, "id", Len(iter.data) + extra)

\* iter.scalar_collect_all().
ScalarCollectAll ==
    /\ status = "ok"
    /\ \E r \in {scalar_collect_all(iter)} :
        Terminal("scalar_collect_all", r, r.p, 1, "id", 0)

\* iter.simd_map(|v| v.to_le().be_u32s() / be_u16s() / be_u8s())
\*     .scalar_collect(); the map's iter field is the producer afterwards.
MapCollect ==
    /\ status = "ok"
    /\ \E k \in Ratios :
        \E r \in {scalar_collect([kind |-> "SIMDMap", iter |-> iter, k |-> k])} :
            Terminal("map_collect", r, r.p.iter, k, "id", 0)

\* iter.simd_for_each(func) over a mutable buffer.
SimdForEach ==
    /\ status = "ok"
    /\ \E g \in {"id", "add100"} :
        \E r \in {simd_for_each(iter, g)} :
            Terminal("simd_for_each",
                     [tag |-> r.tag, out |-> r.p.data, n |-> r.n], r.p, 1, g, 0)

\* iter.simd_reduce(start, func) with an empty accumulator.
SimdReduce ==
    /\ status = "ok"
    /\ \E r \in {simd_reduce(iter, <<>>)} :
        Terminal("simd_reduce", r, r.p, 1, "id", 0)

\* iter.simd_do_each(func).
SimdDoEach ==
    /\ status = "ok"
    /\ \E r \in {simd_do_each(iter)} :
        Terminal("simd_do_each", r, r.p, 1, "id", 0)

Next ==
    \/ IterNext
    \/ IterEnd
    \/ ScalarCollect
    \/ ScalarFill
    \/ ScalarFillAll
    \/ ScalarCollectAll
    \/ MapCollect
    \/ SimdForEach
    \/ SimdReduce
    \/ SimdDoEach

Spec == Init /\ [][Next]_vars

\* ---------------------------------------------- the scalar-sequence adapter
\* A call of adapter.next().
AdapterNext ==
    /\ astatus = "ok"
    /\ \E r \in {SIMDAdapter_next(adapter)} :
        /\ adapter' = r.it
        /\ avecs' = IF apure /\ r.tag = "Some" THEN Append(avecs, r.vec) ELSE avecs
        /\ aexhausted' = (aexhausted \/ (apure /\ r.tag = "None"))
        /\ UNCHANGED <<W, checked, orig, astatus, apure, aends, aresult>>
        /\ UNCHANGED arrayVars
        /\ UNCHANGED wrapper

\* A call of adapter.end().
AdapterEnd ==
    /\ astatus = "ok"
    /\ \E r \in {SIMDAdapter_end(adapter)} :
        /\ adapter' = r.it
        /\ astatus' = IF r.tag \in {"Some", "None"} THEN "ok" ELSE r.tag
        /\ aends' = IF apure /\ Len(aends) < 2
                    THEN Append(aends, [tag |-> r.tag, vec |-> r.vec, n |-> r.n,
                                        exhausted |-> aexhausted,
                                        pos |-> adapter.position,
                                        pulled |-> Len(adapter.iter)])
                    ELSE aends
        /\ UNCHANGED <<W, checked, orig, apure, avecs, aexhausted, aresult>>
        /\ UNCHANGED arrayVars
        /\ UNCHANGED wrapper

\* What a terminal operation on adapter leaves.
AdapterTerminal(op, r) ==
    /\ aresult' = [op |-> op, fresh |-> (apure /\ avecs = <<>> /\ aends = <<>>),
                   start |-> adapter.position,
                   tag |-> r.tag, out |-> r.out, n |-> r.n, k |-> 1, g |-> "id",
                   before |-> adapter.iter, fill |-> 0]
    /\ adapter' = r.p
    /\ astatus' = r.tag
    /\ apure' = FALSE
    /\ avecs' = <<>>
    /\ aexhausted' = FALSE
    /\ aends' = <<>>
    /\ UNCHANGED <<W, checked, orig>>
    /\ UNCHANGED arrayVars
    /\ UNCHANGED wrapper

\* adapter.simd_reduce(start, func) with an empty accumulator.
AdapterReduce ==
    /\ astatus = "ok"
    /\ \E r \in {simd_reduce(adapter, <<>>)} : AdapterTerminal("simd_reduce", r)

\* adapter.simd_do_each(func).
AdapterDoEach ==
    /\ astatus = "ok"
    /\ \E r \in {simd_do_each(adapter)} : AdapterTerminal("simd_do_each", r)

\* adapter.scalar_collect().
AdapterCollect ==
    /\ astatus = "ok"
    /\ \E r \in {scalar_collect(adapter)} : AdapterTerminal("scalar_collect", r)

NextAdapter ==
    \/ AdapterNext
    \/ AdapterEnd
    \/ AdapterReduce
    \/ AdapterDoEach
    \/ AdapterCollect

SpecAdapter == Init /\ [][NextAdapter]_vars

\* ------------------------------------------------------ unroll
\* Batch sizes handed to unroll: every size it accepts and one it refuses.
Amounts == 0..(ScratchLen + 1)

\* iter.unroll(amt): assert!(amt <= 8), then the Unrolled borrows iter.
Unroll ==
    /\ status = "ok"
    /\ wrapper.kind = "none"
    /\ \E amt \in Amounts :
        /\ status' = IF amt <= ScratchLen THEN "ok" ELSE "panic"
        /\ wrapper' = IF amt <= ScratchLen
                      THEN [kind |-> "Unrolled", amt |-> amt, out |-> <<>>,
                            done |-> FALSE, fresh |-> fresh,
                            start |-> iter.position,
                            scratch |-> unroll(amt).scratch]
                      ELSE wrapper
        /\ fresh' = FALSE
        /\ UNCHANGED <<W, checked, orig, iter, pure, vecs, exhausted, ends, result>>
        /\ UNCHANGED adapterVars

\* A call of next() on the Unrolled; out collects the batches it returned.
UnrolledNext ==
    /\ status = "ok"
    /\ wrapper.kind = "Unrolled"
    /\ \E r \in {Unrolled_next(iter, wrapper)} :
        /\ iter' = r.it
        /\ wrapper' = [wrapper EXCEPT
                          !.scratch = r.scratch,
                          !.out = IF r.tag = "Some" THEN Append(@, r.batch) ELSE @,
                          !.done = (@ \/ r.tag = "None")]
        /\ UNCHANGED <<W, checked, orig, status, fresh, pure, vecs, exhausted,
                       ends, result>>
        /\ UNCHANGED adapterVars

NextUnroll ==
    \/ (wrapper.kind = "none" /\ IterNext)
    \/ Unroll
    \/ UnrolledNext

SpecUnroll == Init /\ [][NextUnroll]_vars

\* ------------------------------------------------------ unpack and pack
\* iter.unpack(): the Unpacked takes iter.
Unpack ==
    /\ status = "ok"
    /\ wrapper.kind = "none"
    /\ wrapper' = [kind |-> "Unpacked", amt |-> 1, out |-> <<>>, done |-> FALSE,
                   fresh |-> fresh, start |-> iter.position]
    /\ fresh' = FALSE
    /\ UNCHANGED <<W, checked, orig, iter, status, pure, vecs, exhausted, ends,
                   result>>
    /\ UNCHANGED adapterVars

\* A call of next() on the Unpacked; out collects the scalars it returned.
UnpackedNext ==
    /\ status = "ok"
    /\ wrapper.kind = "Unpacked"
    /\ \E r \in {Unpacked_next(iter)} :
        /\ iter' = r.it
        /\ wrapper' = [wrapper EXCEPT
                          !.out = IF r.tag = "Some" THEN Append(@, r.val) ELSE @,
                          !.done = (@ \/ r.tag = "None")]
        /\ UNCHANGED <<W, checked, orig, status, fresh, pure, vecs, exhausted,
                       ends, result>>
        /\ UNCHANGED adapterVars

\* unpacked.pack(): iter is a vector producer again; the ghosts of next()
\* and end() start over for it.
Pack ==
    /\ status = "ok"
    /\ wrapper.kind = "Unpacked"
    /\ iter' = pack(iter)
    /\ wrapper' = [wrapper EXCEPT !.kind = "Packed"]
    /\ vecs' = <<>>
    /\ exhausted' = FALSE
    /\ ends' = <<>>
    /\ UNCHANGED <<W, checked, orig, status, fresh, pure, result>>
    /\ UNCHANGED adapterVars

NextUnpack ==
    \/ (wrapper.kind # "Unpacked" /\ IterNext)
    \/ (wrapper.kind # "Unpacked" /\ IterEnd)
    \/ Unpack
    \/ UnpackedNext
    \/ Pack

SpecUnpack == Init /\ [][NextUnpack]_vars

\* ------------------------------------- the unchecked buffer accesses
\* An access of the buffer by an unchecked accessor: a vector load or store
\* of the window [o, o + W), or a scalar load or store of index o.
VectorAccess(o) == [kind |-> "vector", o |-> o]
ScalarAccess(o) == [kind |-> "scalar", o |-> o]

\* The debug assertions of the unchecked accessors over a buffer of n
\* scalars: self[offset..].slen() >= WIDTH for a vector (the slicing also
\* needs offset <= n), offset < self.slen() for a scalar.
AssertionHolds(a, n) ==
    IF a.kind = "vector" THEN InBounds(n, a.o, W) ELSE a.o >= 0 /\ a.o < n

\* The accesses of next(): load_unchecked(self.position) behind the
\* comparison.
SIMDIter_next_accesses(it) ==
    IF it.position + W <= SIMDIter_scalar_len(it)
    THEN <<VectorAccess(it.position)>>
    ELSE <<>>

\* SIMDIter_end_accesses loading the tail at the cursor instead of
\* right-aligned.
SIMDIter_end_accesses_at_cursor(it) ==
    LET slen == SIMDIter_scalar_len(it)
        pos == it.position
    IN  IF pos < slen /\ (~checked \/ slen - pos <= W)
        THEN IF W < slen
             THEN <<VectorAccess(pos)>>
             ELSE [i \in 1..(slen - pos) |-> ScalarAccess(pos + (i - 1))]
        ELSE <<>>

\* The accesses of end(): load_unchecked(scalar_len - width) when
\* width < scalar_len, load_scalar_unchecked(i) for i in
\* scalar_pos..scalar_len otherwise.  Under overflow checks the
\* computation of empty_amt panics before any access when more than W
\* scalars are left.
SIMDIter_end_accesses(it) ==
    LET slen == SIMDIter_scalar_len(it)
        pos == it.position
    IN  IF pos < slen /\ (~checked \/ slen - pos <= W)
        THEN IF W < slen
             THEN <<VectorAccess(slen - W)>>
             ELSE [i \in 1..(slen - pos) |-> ScalarAccess(pos + (i - 1))]
        ELSE <<>>

\* The accesses of the loop of simd_for_each: each turn loads by next()
\* and stores at scalar_pos - width.
RECURSIVE ForEachLoop_accesses(_)
ForEachLoop_accesses(it) ==
    With(SIMDIter_next(it), LAMBDA r :
        IF r.tag = "Some"
        THEN SIMDIter_next_accesses(it)
             \o <<VectorAccess(r.it.position - W)>>
             \o ForEachLoop_accesses(r.it)
        ELSE <<>>)

\* The accesses of simd_for_each: those of the loop, those of end(), and
\* for a tail (p, n) the stores at offset - n and offset - width when
\* width < scalar_len, the scalar stores at offset + i for i in
\* 0..(width - n) otherwise.
simd_for_each_accesses(it) ==
    With(ForEachLoop(it, "id", Vector_default(W)), LAMBDA lp :
      With(SIMDIter_end(lp.it), LAMBDA e :
        ForEachLoop_accesses(it)
        \o SIMDIter_end_accesses(lp.it)
        \o (IF e.tag = "Some"
            THEN IF W < SIMDIter_scalar_len(e.it)
                 THEN <<VectorAccess(lp.it.position - e.n),
                        VectorAccess(lp.it.position - W)>>
                 ELSE [i \in 1..(W - e.n) |->
                          ScalarAccess(lp.it.position + (i - 1))]
            ELSE <<>>)))

\* The accesses so far and whether they are those of one simd_for_each.
Accessed(out, call) ==
    [NoWrapper EXCEPT !.kind = "Access", !.out = out, !.done = call]

\* A call of iter.next(), with its accesses recorded.
AccessNext ==
    /\ status = "ok"
    /\ \E r \in {SIMDIter_next(iter)} :
        /\ iter' = r.it
        /\ fresh' = FALSE
        /\ vecs' = IF pure /\ r.tag = "Some" THEN Append(vecs, r.vec) ELSE vecs
        /\ exhausted' = (exhausted \/ (pure /\ r.tag = "None"))
        /\ wrapper' = Accessed(wrapper.out \o SIMDIter_next_accesses(iter), FALSE)
        /\ UNCHANGED <<W, checked, orig, status, pure, ends, result>>
        /\ UNCHANGED adapterVars

\* A call of iter.end(), with its accesses recorded.
AccessEnd ==
    /\ status = "ok"
    /\ \E r \in {SIMDIter_end(iter)} :
        /\ iter' = r.it
        /\ fresh' = FALSE
        /\ status' = IF r.tag \in {"Some", "None"} THEN "ok" ELSE r.tag
        /\ ends' = IF pure /\ Len(ends) < 2
                   THEN Append(ends, [tag |-> r.tag, vec |-> r.vec, n |-> r.n,
                                      exhausted |-> exhausted,
                                      pos |-> iter.position])
                   ELSE ends
        /\ wrapper' = Accessed(wrapper.out \o SIMDIter_end_accesses(iter), FALSE)
        /\ UNCHANGED <<W, checked, orig, pure, vecs, exhausted, result>>
        /\ UNCHANGED adapterVars

\* iter.simd_for_each(func), with the accesses of the call recorded.
AccessForEach ==
    /\ status = "ok"
    /\ \E g \in {"id", "add100"} :
        \E r \in {simd_for_each(iter, g)} :
            /\ result' = [op |-> "simd_for_each", fresh |-> fresh,
                          start |-> iter.position, tag |-> r.tag,
                          out |-> r.p.data, n |-> r.n, k |-> 1, g |-> g,
                          before |-> iter.data, fill |-> 0]
            /\ iter' = r.p
            /\ status' = r.tag
            /\ fresh' = FALSE
            /\ pure' = FALSE
            /\ vecs' = <<>>
            /\ exhausted' = FALSE
            /\ ends' = <<>>
            /\ wrapper' = Accessed(simd_for_each_accesses(iter), TRUE)
            /\ UNCHANGED <<W, checked, orig>>
            /\ UNCHANGED adapterVars

NextAccess ==
    \/ AccessNext
    \/ AccessEnd
    \/ AccessForEach

SpecAccess == Init /\ [][NextAccess]_vars

\* ------------------------------- the example in simd_reduce's documentation
\* The example reduces 100 copies of 2.0 with default 0.0.
DocLen == 100
DocValue == 2

\* The vector widths the example speaks of.
DocWidths == {4, 8}

\* Buffers of up to DocLen copies of DocValue, with the zero default.
InitDoc ==
    /\ W \in DocWidths
    /\ checked \in BOOLEAN
    /\ orig \in {[i \in 1..len0 |-> DocValue] : len0 \in 0..DocLen}
    /\ iter = [kind |-> "SIMDIter", position |-> 0, data |-> orig,
               default |-> Vector_default(W)]
    /\ adapter = [kind |-> "SIMDAdapter", iter |-> orig, scratch |-> iter.default,
                  default |-> iter.default, position |-> 0]
    /\ status = "ok"
    /\ fresh = TRUE
    /\ pure = TRUE
    /\ vecs = <<>>
    /\ exhausted = FALSE
    /\ ends = <<>>
    /\ result = NoResult
    /\ avecs = <<>>
    /\ aexhausted = FALSE
    /\ astatus = "ok"
    /\ apure = TRUE
    /\ aends = <<>>
    /\ aresult = NoResult
    /\ wrapper = NoWrapper

\* iter.simd_reduce(zero, |acc, v| acc + v); result.out is the pair of the
\* argument of the closure's last call and the reduction.
DocReduce ==
    /\ status = "ok"
    /\ fresh
    /\ \E r \in {simd_reduce_add(iter, Vector_default(W))} :
        Terminal("simd_reduce_add",
                 [tag |-> r.tag, out |-> <<r.last, r.out>>, n |-> r.n],
                 r.p, 1, "id", 0)

NextDoc == DocReduce

SpecDoc == InitDoc /\ [][NextDoc]_vars

\* ------------------------------------- maps between scalars of any size
\* Scalar::SIZE of the scalar types, in bytes, and the bytes of the
\* hardware vectors.
Sizes == {1, 2, 4, 8}
VectorBytes == {16, 32, 64}

\* Longest buffer explored under a map.
MaxMapLen == 100

\* A fresh SIMDIter of W lanes of isz bytes over the scalars 1, 2, ..., and
\* a SIMDMap over it into lanes of osz bytes.  Up to two vectors' worth of
\* scalars, so that every tail occurs.
InitMap ==
    /\ \E isz \in Sizes, osz \in Sizes, vb \in VectorBytes :
        /\ W = vb \div isz
        /\ wrapper = [kind |-> "SIMDMap", isz |-> isz, osz |-> osz,
                      tail |-> [tag |-> "none", inner |-> 0, n |-> 0],
                      fin |-> "none"]
    /\ checked \in BOOLEAN
    /\ orig \in {[i \in 1..len0 |-> i] :
                    len0 \in 0..(IF 2 * W - 1 < MaxMapLen THEN 2 * W - 1 ELSE MaxMapLen)}
    /\ iter = [kind |-> "SIMDIter", position |-> 0, data |-> orig,
               default |-> Vector_default(W)]
    /\ adapter = [kind |-> "SIMDAdapter", iter |-> orig, scratch |-> iter.default,
                  default |-> iter.default, position |-> 0]
    /\ status = "ok"
    /\ fresh = TRUE
    /\ pure = TRUE
    /\ vecs = <<>>
    /\ exhausted = FALSE
    /\ ends = <<>>
    /\ result = NoResult
    /\ avecs = <<>>
    /\ aexhausted = FALSE
    /\ astatus = "ok"
    /\ apure = TRUE
    /\ aends = <<>>
    /\ aresult = NoResult

\* The SIMDMap that wrapper and iter stand for.
TheMap == [kind |-> "SIMDMap", iter |-> iter, isz |-> wrapper.isz, osz |-> wrapper.osz]

\* A call of next() on the map.
MapNext ==
    /\ status = "ok"
    /\ \E r \in {CastMap_next(TheMap)} :
        /\ iter' = r.it.iter
        /\ fresh' = FALSE
        /\ exhausted' = (exhausted \/ r.tag = "None")
        /\ UNCHANGED <<W, checked, orig, status, pure, vecs, ends, result, wrapper>>
        /\ UNCHANGED adapterVars

\* A call of end() on the map; wrapper.tail keeps the first tail it
\* returned.
MapEnd ==
    /\ status = "ok"
    /\ \E r \in {CastMap_end(TheMap)} :
        /\ iter' = r.it.iter
        /\ fresh' = FALSE
        /\ status' = IF r.tag \in {"Some", "None"} THEN "ok" ELSE r.tag
        /\ wrapper' = IF r.tag = "Some" /\ wrapper.tail.tag = "none"
                      THEN [wrapper EXCEPT !.tail = [tag |-> "Some", inner |-> r.inner,
                                                    n |-> r.n]]
                      ELSE wrapper
        /\ UNCHANGED <<W, checked, orig, pure, vecs, exhausted, ends, result>>
        /\ UNCHANGED adapterVars

\* A call of finalize() on the map.
MapFinalize ==
    /\ status = "ok"
    /\ \E r \in {SIMDMap_finalize(TheMap)} :
        /\ iter' = r.it.iter
        /\ fresh' = FALSE
        /\ status' = r.tag
        /\ wrapper' = [wrapper EXCEPT !.fin = r.tag]
        /\ UNCHANGED <<W, checked, orig, pure, vecs, exhausted, ends, result>>
        /\ UNCHANGED adapterVars

NextMap ==
    \/ MapNext
    \/ MapEnd
    \/ MapFinalize

SpecMap == InitMap /\ [][NextMap]_vars

\* ================================================================ claims
\* The length of the buffer the producers were created over.
L == Len(orig)

\* The s-th full vector (s = 1, 2, ...) of the buffer.
FullVector(s) == [j \in 1..W |-> orig[(s - 1) * W + j]]

\* The first call of end() on iter came after next() had returned None,
\* and nothing but next() and end() was called before it.
EndedInOrder == pure /\ Len(ends) >= 1 /\ ends[1].exhausted

\* C1: over a buffer whose length L is not a multiple of W, next() on a
\* fresh SIMDIter returns exactly floor(L/W) vectors before it returns
\* None, and the end() that follows returns a tail whose empty-lane count
\* is W - (L mod W).
C1_FullVectorsThenTail ==
    (pure /\ L % W # 0) =>
        /\ Len(vecs) <= L \div W
        /\ exhausted => Len(vecs) = L \div W
        /\ EndedInOrder =>
              /\ ends[1].tag = "Some"
              /\ ends[1].n = W - (L % W)

\* A buffer of 2W+1 or more scalars, not a multiple of W, walked with
\* next() to None and then end().
C1_Witness ==
    /\ L % W # 0
    /\ EndedInOrder
    /\ Len(vecs) >= 2
    /\ ends[1].tag = "Some"

C2_WitnessScalarPath ==
    /\ EndedInOrder
    /\ ends[1].tag = "Some"
    /\ L < W
    /\ L >= 2
    /\ iter.default[1] # iter.default[2]

\* C3: scalar_collect on a fresh SIMDIter over B returns B, whatever the
\* length of B.
C3_CollectRoundTrip ==
    (result.op = "scalar_collect" /\ result.fresh) =>
        /\ result.tag = "ok"
        /\ result.out = orig

\* scalar_collect over a buffer with full vectors and a tail.
C3_Witness ==
    /\ result.op = "scalar_collect"
    /\ result.fresh
    /\ L > W
    /\ L % W # 0
    /\ result.out = orig

\* C4: simd_for_each(f), f acting on each lane as g, on a fresh SIMDIter
\* over B leaves the buffer g(B[i]) at every index i: each scalar through g
\* exactly once.
C4_ForEachOncePerScalar ==
    (result.op = "simd_for_each" /\ result.fresh) =>
        /\ result.tag = "ok"
        /\ iter.data = [i \in 1..L |->
                           IF result.g = "add100" THEN orig[i] + 100 ELSE orig[i]]

\* simd_for_each with a mutator that is not the identity, over a buffer
\* with full vectors and a tail.
C4_Witness ==
    /\ result.op = "simd_for_each"
    /\ result.fresh
    /\ result.g = "add100"
    /\ L > W
    /\ L % W # 0
    /\ result.tag = "ok"

\* simd_for_each over a buffer shorter than a vector.
C4_WitnessShort ==
    /\ result.op = "simd_for_each"
    /\ result.fresh
    /\ result.g = "add100"
    /\ L \in 1..(W - 1)
    /\ result.tag = "ok"

\* C5: over a fresh SIMDIter of L 8-byte scalars with a zero default,
\* simd_map with a reinterpretation into k times as many lanes and then
\* scalar_collect returns L*k scalars, the k little-endian parts of each
\* input scalar in order, and the tail's empty count is k times the
\* inner one.
C5_BitcastMapCollect ==
    (/\ result.op = "map_collect"
     /\ result.fresh
     /\ \A j \in 1..W : iter.default[j] = 0) =>
        /\ result.tag = "ok"
        /\ Len(result.out) = L * result.k
        /\ \A i \in 0..(L - 1) : \A part \in 0..(result.k - 1) :
              result.out[i * result.k + part + 1] =
                  PartSum(orig[i + 1], part * (ScalarSize \div result.k),
                          ScalarSize \div result.k)
        /\ (L % W # 0) => result.n = (W - (L % W)) * result.k

\* A map into four times as many lanes over a buffer with full vectors
\* and a tail.
C5_Witness ==
    /\ result.op = "map_collect"
    /\ result.fresh
    /\ \A j \in 1..W : iter.default[j] = 0
    /\ result.k = 4
    /\ L > W
    /\ L % W # 0
    /\ Len(result.out) = 4 * L

\* What simd_reduce and simd_do_each must have handed to f over the buffer:
\* every full vector in order, then a tail if L mod W # 0.
CallsAsClaimed(calls) ==
    /\ Len(calls) = (L \div W) + (IF L % W # 0 THEN 1 ELSE 0)
    /\ \A s \in 1..(L \div W) : calls[s] = FullVector(s)

\* C6: simd_reduce and simd_do_each on a fresh producer call f once per
\* full vector, in order, and once more on the tail exactly if
\* L mod W # 0.  Stated for the scalar-sequence adapter.
C6_AdapterCalls ==
    (aresult.op \in {"simd_reduce", "simd_do_each"} /\ aresult.fresh) =>
        /\ aresult.tag = "ok"
        /\ CallsAsClaimed(aresult.out)

\* The same for the array-backed producer, where it holds.
C6_ArrayCalls ==
    (result.op \in {"simd_reduce", "simd_do_each"} /\ result.fresh) =>
        /\ result.tag = "ok"
        /\ CallsAsClaimed(result.out)

\* C7: scalar_fill_all from a fresh SIMDIter over B into a destination with
\* room for one more vector leaves destination[0..L) equal to B.
C7_FillAllPrefix ==
    (result.op = "scalar_fill_all" /\ result.fresh /\ result.fill >= L + W) =>
        /\ result.tag = "ok"
        /\ SubSeq(result.out, 1, L) = orig

\* C8: scalar_collect_all on a fresh producer returns between L and L + W
\* scalars.
C8_CollectAllLength ==
    (result.op = "scalar_collect_all" /\ result.fresh) =>
        /\ result.tag = "ok"
        /\ Len(result.out) >= L
        /\ Len(result.out) <= L + W

\* The first call of end() on adapter, if any, came after next() had
\* returned None, and nothing but next() and end() was called.
AdapterInOrder == apure /\ (aends = <<>> \/ aends[1].exhausted)

\* C9: next() on a fresh SIMDAdapter over L scalars returns exactly
\* floor(L/W) vectors, holding the first floor(L/W)*W scalars in order,
\* and if L mod W # 0 the end() that follows returns a tail with the other
\* L mod W scalars.
C9_AdapterDeliversAll ==
    AdapterInOrder =>
        /\ \A s \in 1..Len(avecs) : s <= L \div W /\ avecs[s] = FullVector(s)
        /\ aexhausted => Len(avecs) = L \div W
        /\ (aends # <<>> /\ L % W # 0) =>
              /\ aends[1].tag = "Some"
              /\ {aends[1].vec[j] : j \in (W - (L % W) + 1)..W} =
                     {orig[i] : i \in (L - (L % W) + 1)..L}

\* C10: when the adapter's end() returns a tail (v, e) after pulling r
\* scalars, 1 <= r < W, the pulled scalars are in lanes W-r..W-1, lanes
\* 0..W-r-1 are the default's, and e = W - r.
C10_AdapterTailCount ==
    (/\ apure
     /\ aends # <<>>
     /\ aends[1].tag = "Some"
     /\ aends[1].pulled \in 1..(W - 1)) =>
        LET r == aends[1].pulled
            v == aends[1].vec
        IN  /\ {v[j] : j \in (W - r + 1)..W} =
                   {orig[i] : i \in (L - r + 1)..L}
            /\ \A j \in 1..(W - r) : v[j] = adapter.default[j]
            /\ aends[1].n = W - r

\* Only next() and end() were called on iter, and end() not before next()
\* had returned None.
InOrder == pure /\ (ends = <<>> \/ ends[1].exhausted)

\* C11: over a buffer whose length L is a multiple of W, next() returns
\* exactly L/W vectors and then None, and end() returns None; for L = 0
\* both return None on the first call.
C11_MultipleOfWidth ==
    (InOrder /\ L % W = 0) =>
        /\ Len(vecs) <= L \div W
        /\ exhausted => Len(vecs) = L \div W
        /\ \A i \in 1..Len(ends) : ends[i].tag = "None"
        /\ (pure /\ L = 0) => /\ vecs = <<>>
                              /\ \A i \in 1..Len(ends) : ends[i].tag = "None"

\* A buffer of two or more full vectors and no tail, walked to None and
\* then end().
C11_Witness ==
    /\ L % W = 0
    /\ L >= 2 * W
    /\ EndedInOrder
    /\ Len(vecs) = L \div W
    /\ ends[1].tag = "None"

\* The empty buffer: end() called first, returning None.
C11_WitnessEmpty ==
    /\ L = 0
    /\ pure
    /\ Len(ends) = 2
    /\ exhausted
    /\ ends[1].tag = "None"

\* C12: end() returns a tail only when position < scalar_len at the call;
\* after it position = scalar_len, and every later next() or end() returns
\* None and leaves the position where it is.
C12_TailOnce ==
    /\ [](\A i \in 1..Len(ends) :
            (pure /\ ends[i].tag = "Some") =>
                /\ ends[i].pos < L
                /\ iter.position = L
                /\ i = 1)
    /\ [][(pure /\ pure' /\ ends # <<>> /\ ends[1].tag = "Some") =>
            /\ iter'.position = iter.position
            /\ vecs' = vecs
            /\ (Len(ends') > Len(ends)) => ends'[Len(ends')].tag = "None"]_vars

\* A tail was returned, and end() was called once more.
C12_Witness ==
    /\ pure
    /\ Len(ends) = 2
    /\ ends[1].tag = "Some"
    /\ ends[2].tag = "None"
    /\ exhausted

\* C13: for a fresh producer with V full vectors, unroll(N), 1 <= N <= 8,
\* yields ceil(V/N) non-empty batches before None; batch b holds the full
\* vectors (b-1)N+1 .. min(bN, V) in order, so every batch but the last has
\* N vectors and the last has V mod N, or N when N divides V.
C13_UnrollBatches ==
    (wrapper.kind = "Unrolled" /\ wrapper.fresh /\ wrapper.amt \in 1..ScratchLen) =>
        LET V == L \div W
            N == wrapper.amt
            batches == (V + N - 1) \div N
        IN  /\ Len(wrapper.out) <= batches
            /\ wrapper.done => Len(wrapper.out) = batches
            /\ \A b \in 1..Len(wrapper.out) :
                  /\ Len(wrapper.out[b]) =
                         IF b * N <= V THEN N ELSE V - (b - 1) * N
                  /\ Len(wrapper.out[b]) > 0
                  /\ \A j \in 1..Len(wrapper.out[b]) :
                        wrapper.out[b][j] = FullVector((b - 1) * N + j)

\* Five full vectors taken three at a time, to the None: a batch of three
\* and a batch of two.
C13_Witness ==
    /\ wrapper.kind = "Unrolled"
    /\ wrapper.fresh
    /\ wrapper.amt = 3
    /\ L \div W = 5
    /\ wrapper.done
    /\ Len(wrapper.out) = 2
    /\ Len(wrapper.out[2]) = 2

TailCountExact ==
    /\ (wrapper.tail.inner * wrapper.isz) % wrapper.osz = 0
    /\ wrapper.tail.n * wrapper.osz = wrapper.tail.inner * wrapper.isz
    /\ wrapper.tail.n >= 0
    /\ wrapper.tail.n < SIMDMap_width(TheMap)

\* C15: for every bit-reinterpreting map between scalars of 1, 2, 4 or 8
\* bytes, to narrower or to wider scalars, and every tail of the inner
\* producer, the empty count SIMDMap::end computes is exact and less than
\* the outer width.
C15_TailCountAnySizes ==
    (wrapper.kind = "SIMDMap" /\ wrapper.tail.tag = "Some") => TailCountExact

\* C15 amended: the same for maps to scalars that are not wider than the
\* inner ones.
C15_TailCountNarrowing ==
    (/\ wrapper.kind = "SIMDMap"
     /\ wrapper.tail.tag = "Some"
     /\ wrapper.osz <= wrapper.isz) => TailCountExact

\* A tail through a map from 8-byte to 2-byte lanes, after next() was
\* exhausted.
C15_Witness ==
    /\ wrapper.kind = "SIMDMap"
    /\ wrapper.tail.tag = "Some"
    /\ wrapper.isz = 8
    /\ wrapper.osz = 2
    /\ exhausted
    /\ wrapper.tail.inner = 3
    /\ wrapper.tail.n = 12

\* C20: a SIMDMap reports its scalar length in output units, inner
\* scalar_len * inner size / output size, so 0 <= scalar_pos() <=
\* scalar_len() in every state of a traversal and finalize() is well
\* defined.
C20_MapScalarLen ==
    (wrapper.kind = "SIMDMap") =>
        /\ SIMDMap_scalar_len(TheMap) =
               (SIMDIter_scalar_len(iter) * wrapper.isz) \div wrapper.osz
        /\ SIMDMap_scalar_pos(TheMap) >= 0
        /\ SIMDMap_scalar_pos(TheMap) <= SIMDMap_scalar_len(TheMap)
        /\ wrapper.fin # "panic"

\* The cursor part of C20 alone: scalar_pos() <= scalar_len() on a map.
C20_MapCursorInRange ==
    (wrapper.kind = "SIMDMap") =>
        SIMDMap_scalar_pos(TheMap) <= SIMDMap_scalar_len(TheMap)

\* The finalize part of C20 alone: finalize() on a map does not fail.
C20_MapFinalizeDefined ==
    (wrapper.kind = "SIMDMap") => wrapper.fin # "panic"

\* C16: in a checked build, end() on an array-backed producer while more
\* than W scalars remain fails at once: it returns no tail, builds no
\* vector and leaves the cursor where it was.
C16_EarlyEndFails ==
    \A i \in 1..Len(ends) :
        (checked /\ pure /\ L - ends[i].pos > W) =>
            /\ ends[i].tag = "panic"
            /\ ends[i].vec = <<>>
            /\ status = "panic"
            /\ iter.position = ends[i].pos
            /\ i = Len(ends)

\* end() called in a checked build after one or more next(), with more
\* than W scalars left.
C16_Witness ==
    /\ checked
    /\ pure
    /\ Len(ends) = 1
    /\ ends[1].pos > 0
    /\ L - ends[1].pos > W
    /\ ends[1].tag = "panic"

\* C17: unpack() on an array-backed producer at position p yields B[p],
\* B[p+1], ..., B[L-1] in order, the cursor one scalar further at each
\* step, then None forever; pack() returns the producer with its cursor at
\* p plus the number of scalars yielded.
C17_UnpackYieldsRest ==
    (wrapper.kind \in {"Unpacked", "Packed"}) =>
        /\ \A i \in 1..Len(wrapper.out) :
              /\ wrapper.start + i <= L
              /\ wrapper.out[i] = orig[wrapper.start + i]
        /\ wrapper.done => wrapper.start + Len(wrapper.out) = L
        /\ (wrapper.kind = "Unpacked" \/ (vecs = <<>> /\ ends = <<>>)) =>
              iter.position = wrapper.start + Len(wrapper.out)

\* An Unpacked taken after one next(), run to its None, and packed.
C17_Witness ==
    /\ wrapper.kind = "Packed"
    /\ wrapper.start = W
    /\ Len(wrapper.out) >= 2
    /\ wrapper.done
    /\ iter.position = L

\* C18: after unpacking k scalars, 0 <= k <= L, from a fresh array-backed
\* producer and pack(), next() until None and then end() deliver exactly
\* B[k..L) in order: full vectors of W, then a tail with every lane written
\* inside the vector and an empty count of W minus the scalars in it.
C18_UnpackReversible ==
    (wrapper.kind = "Packed" /\ wrapper.fresh /\ InOrder) =>
        LET k    == Len(wrapper.out)
            rest == (L - k) % W
        IN  /\ status = "ok"
            /\ \A s \in 1..Len(vecs) :
                  /\ s <= (L - k) \div W
                  /\ vecs[s] = [j \in 1..W |-> orig[k + (s - 1) * W + j]]
            /\ exhausted => Len(vecs) = (L - k) \div W
            /\ (ends # <<>>) =>
                  IF rest = 0 THEN ends[1].tag = "None"
                  ELSE /\ ends[1].tag = "Some"
                       /\ ends[1].n = W - rest
                       /\ \A j \in (W - rest + 1)..W :
                             ends[1].vec[j] = orig[(L - W) + j]

\* C19: on an array-backed producer driven by next() and then at most one
\* end() after next() is exhausted, 0 <= position <= scalar_len; position
\* never decreases; a next() that returns a vector advances it by W, one
\* that returns None leaves it, and end() takes it to scalar_len.
C19_CursorSteps ==
    /\ []((InOrder /\ Len(ends) <= 1) =>
            (iter.position >= 0 /\ iter.position <= SIMDIter_scalar_len(iter)))
    /\ [][(InOrder /\ InOrder' /\ Len(ends') <= 1) =>
            /\ iter'.position >= iter.position
            /\ (Len(vecs') > Len(vecs)) => iter'.position = iter.position + W
            /\ (vecs' = vecs /\ ends' = ends) => iter'.position = iter.position
            /\ (Len(ends') > Len(ends)) =>
                  iter'.position =
                      iter.position + (SIMDIter_scalar_len(iter) - iter.position)]_vars

\* Two or more vectors and then the tail: the cursor went W at a time and
\* then to the end.
C19_Witness ==
    /\ EndedInOrder
    /\ Len(ends) = 1
    /\ ends[1].tag = "Some"
    /\ Len(vecs) >= 2
    /\ ends[1].pos = Len(vecs) * W
    /\ iter.position = L

\* C21: scalar_fill from a fresh array producer over a buffer of L scalars
\* into a destination of at least L scalars completes in both builds (no
\* store window leaves [0, L), not even in a destination of exactly L
\* scalars), leaves the destination equal to the buffer on [0, L) and
\* leaves everything from L on as it was.
C21_ExactFill ==
    (result.op = "scalar_fill" /\ result.fresh) =>
        /\ result.tag = "ok"
        /\ Len(result.out) = result.fill
        /\ \A i \in 1..L : result.out[i] = orig[i]
        /\ \A i \in (L + 1)..Len(result.out) : result.out[i] = Untouched

\* A fill with a tail after a full vector, into a destination one vector
\* longer than the buffer.
C21_Witness ==
    /\ result.op = "scalar_fill" /\ result.fresh /\ result.tag = "ok"
    /\ result.fill = L + W
    /\ L > W /\ L % W # 0

\* The same into a destination of exactly L scalars, in the build without
\* assertions.
C21_WitnessExact ==
    /\ result.op = "scalar_fill" /\ result.fresh /\ result.tag = "ok"
    /\ result.fill = L /\ ~checked
    /\ L > W /\ L % W # 0

\* The elementwise path: a buffer shorter than one vector.
C21_WitnessShort ==
    /\ result.op = "scalar_fill" /\ result.fresh /\ result.tag = "ok"
    /\ result.fill = L + W
    /\ 0 < L /\ L < W

\* C22: while a fresh array producer is used as the protocol says (next()
\* until None and then end(), or one simd_for_each), every unchecked vector
\* access is of a window [o, o + W) with 0 <= o and o + W <= L and every
\* unchecked scalar access is of an index below L, so that no call stops
\* on an assertion.
C22_AccessesInBounds ==
    (InOrder \/ (wrapper.done /\ result.op = "simd_for_each" /\ result.fresh)) =>
        /\ status = "ok"
        /\ \A i \in 1..Len(wrapper.out) : AssertionHolds(wrapper.out[i], L)

\* A traversal by next() and end() that loaded full vectors and a
\* right-aligned tail.
C22_Witness ==
    /\ InOrder /\ ends # <<>> /\ ends[1].tag = "Some"
    /\ L > W /\ L % W # 0
    /\ Len(wrapper.out) = (L \div W) + 1
    /\ wrapper.out[Len(wrapper.out)] = VectorAccess(L - W)

\* A traversal of a buffer shorter than a vector: scalar loads only.
C22_WitnessScalar ==
    /\ InOrder /\ ends # <<>> /\ ends[1].tag = "Some"
    /\ L < W
    /\ Len(wrapper.out) = L
    /\ \A i \in 1..L : wrapper.out[i] = ScalarAccess(i - 1)

\* A simd_for_each over a fresh producer with full vectors and a tail:
\* a load and a store for each full vector, the load of the tail and the
\* two stores after it.
C22_WitnessForEach ==
    /\ wrapper.done /\ result.op = "simd_for_each" /\ result.fresh
    /\ L > W /\ L % W # 0
    /\ Len(wrapper.out) = 2 * (L \div W) + 3

\* C23: simd_for_each called on a producer whose cursor is at p > 0 leaves
\* the first p scalars of the buffer as they were before the call.
C23_ForEachLeavesPrefix ==
    (result.op = "simd_for_each" /\ result.start > 0) =>
        \A i \in 1..result.start : result.out[i] = result.before[i]

\* C24: at every point of a traversal of an array producer by next() and
\* end(), len() of the producer, and of a map over it, is the number of
\* vectors next() has still to return: floor(L / W) less the number
\* returned so far.
C24_LenIsRemaining ==
    InOrder =>
        /\ SIMDIter_len(iter) = (L \div W) - Len(vecs)
        /\ \A k \in Ratios :
              len([kind |-> "SIMDMap", iter |-> iter, k |-> k])
                  = (L \div W) - Len(vecs)

====
